---- MODULE Spec2Model ----
(***************************************************************************)
(* Model of the detail/search session store (src/stores/detailStore.ts)    *)
(* and of the provider client it calls (API in src/unnamed/part_000).      *)
(*                                                                         *)
(* Execution model: JavaScript runs one piece of code at a time, and an   *)
(* async function gives way at every await.  A step of the model is a      *)
(* caller operation (init, abort, setDetail, toggleFavorite,               *)
(* markSourceAsFailed, getNextAvailableSource, setBaseUrl) up to its first *)
(* await, or the stretch between two awaits of an init, setDetail or       *)
(* toggleFavorite call: the code that runs when the promise it awaits has  *)
(* settled.  The resolution probes of one batch settle together, with the  *)
(* Promise.all that awaits them.                                           *)
(***************************************************************************)
EXTENDS Integers, Sequences, FiniteSets, Bags, TLC

(***************************************************************************)
(* Bounds                                                                  *)
(***************************************************************************)
MaxSessions == 2
MaxResults == 3
MaxEpisodeIndex == 1

(***************************************************************************)
(* Values                                                                  *)
(***************************************************************************)
Null == "null"

Sources == {"A", "B", "C"}
Queries == {"X"}

SourceName(key) == IF key = "A" THEN "Alpha" ELSE IF key = "B" THEN "Beta" ELSE "Gamma"

\* A label (quality, resolution, load speed) is the tuple of its characters;
\* a character outside ASCII, or without an escape, is written as its code
\* point.
Q4K == <<"4", "K">>
Q2K == <<"2", "K">>
Q1080p == <<"1", "0", "8", "0", "p">>
Q720p == <<"7", "2", "0", "p">>
Q480p == <<"4", "8", "0", "p">>
Q360p == <<"3", "6", "0", "p">>
QSD == <<"S", "D">>

\* An absent resolution: no label, since every element of a label is one
\* character.
Undefined == <<"undefined">>

UnknownLabel == <<"U+672A", "U+77E5">>
MeasuringLabel == <<"U+6D4B", "U+91CF", "U+4E2D", ".", ".", ".">>

Digits == {"0", "1", "2", "3", "4", "5", "6", "7", "8", "9"}

\* The characters \s matches in a regular expression.
WhiteSpace ==
  {" ", "\t", "\n", "\r", "\f", "U+000B", "U+00A0", "U+1680", "U+2000", "U+2001",
   "U+2002", "U+2003", "U+2004", "U+2005", "U+2006", "U+2007", "U+2008", "U+2009",
   "U+200A", "U+2028", "U+2029", "U+202F", "U+205F", "U+3000", "U+FEFF"}

DigitVal(c) ==
  CASE c = "0" -> 0 [] c = "1" -> 1 [] c = "2" -> 2 [] c = "3" -> 3 [] c = "4" -> 4
    [] c = "5" -> 5 [] c = "6" -> 6 [] c = "7" -> 7 [] c = "8" -> 8 [] c = "9" -> 9

(***************************************************************************)
(* Numbers.  A Number of the program is an IEEE 754 double: here NaN, or    *)
(* the value m * 2^e of a natural number m below 2^53 and an integer e.     *)
(* m is held as the sequence of its digits in base Limb, least significant  *)
(* first and without leading zeros, since it does not fit 32 bits; every   *)
(* operation computes the exact result and rounds it to the nearest         *)
(* double, ties to the even one.  No value of the model comes near the      *)
(* largest or the smallest double.                                          *)
(***************************************************************************)
Limb == 32768
LimbBits == 15

RECURSIVE NatLimbs(_)
NatLimbs(n) == IF n = 0 THEN <<>> ELSE <<n % Limb>> \o NatLimbs(n \div Limb)

RECURSIVE LimbsNat(_)
LimbsNat(a) == IF a = <<>> THEN 0 ELSE Head(a) + Limb * LimbsNat(Tail(a))

RECURSIVE AddLimbs(_, _, _)
AddLimbs(a, b, carry) ==
  IF a = <<>> /\ b = <<>> THEN NatLimbs(carry)
  ELSE LET t == (IF a = <<>> THEN 0 ELSE Head(a)) + (IF b = <<>> THEN 0 ELSE Head(b)) + carry
       IN <<t % Limb>> \o AddLimbs(IF a = <<>> THEN <<>> ELSE Tail(a),
                                   IF b = <<>> THEN <<>> ELSE Tail(b), t \div Limb)

\* a * c + carry, for 0 < c <= Limb.
RECURSIVE TimesSmall(_, _, _)
TimesSmall(a, c, carry) ==
  IF a = <<>> THEN NatLimbs(carry)
  ELSE LET t == Head(a) * c + carry
       IN <<t % Limb>> \o TimesSmall(Tail(a), c, t \div Limb)

RECURSIVE TimesLimbs(_, _)
TimesLimbs(a, b) ==
  IF a = <<>> \/ b = <<>> THEN <<>>
  ELSE LET rest == TimesLimbs(a, Tail(b))
           low == IF Head(b) = 0 THEN <<>> ELSE TimesSmall(a, Head(b), 0)
       IN AddLimbs(low, IF rest = <<>> THEN <<>> ELSE <<0>> \o rest, 0)

\* Quotient and remainder of a by d, for 0 < d <= Limb.
RECURSIVE DivSmall(_, _)
DivSmall(a, d) ==
  IF a = <<>> THEN [q |-> <<>>, r |-> 0]
  ELSE LET up == DivSmall(Tail(a), d)
           t == up.r * Limb + Head(a)
       IN [q |-> IF up.q = <<>> /\ t \div d = 0 THEN <<>> ELSE <<t \div d>> \o up.q,
           r |-> t % d]

\* a * 2^k and the integer part of a / 2^k.
ShiftLeft(a, k) ==
  IF a = <<>> THEN <<>>
  ELSE [i \in 1..(k \div LimbBits) |-> 0] \o TimesSmall(a, 2 ^ (k % LimbBits), 0)

ShiftRight(a, k) ==
  IF k \div LimbBits >= Len(a) THEN <<>>
  ELSE DivSmall(SubSeq(a, k \div LimbBits + 1, Len(a)), 2 ^ (k % LimbBits)).q

RECURSIVE Bits(_)
Bits(n) == IF n = 0 THEN 0 ELSE 1 + Bits(n \div 2)

BitLength(a) == IF a = <<>> THEN 0 ELSE LimbBits * (Len(a) - 1) + Bits(a[Len(a)])

Odd(a) == a # <<>> /\ a[1] % 2 = 1

NotANumber == [nan |-> TRUE, m |-> <<>>, e |-> 0]

Number(m, e) == [nan |-> FALSE, m |-> m, e |-> e]

\* The Number of an integer from 0 to 2^30.
Integral(n) == Number(NatLimbs(n), 0)

\* Whether one of the k lowest bits of n is set.
AnyBelow(n, k) ==
  \E i \in 1..Len(n) :
    \/ i <= k \div LimbBits /\ n[i] # 0
    \/ i = k \div LimbBits + 1 /\ n[i] % (2 ^ (k % LimbBits)) # 0

\* The nearest of down and down + 1 to a value that lies between them:
\* above their middle, in the middle (half and not above), or below it.
Nearest(down, half, above) ==
  IF half /\ (above \/ Odd(down)) THEN AddLimbs(down, <<>>, 1) ELSE down

\* n * 2^e of a natural number n of 53 + drop bits, rounded; kept is n
\* without its drop - 1 lowest bits.
Rounded(kept, e, above) == Number(Nearest(ShiftRight(kept, 1), Odd(kept), above), e)

DropBits(n, e, inexact, drop) ==
  IF drop <= 0 THEN Number(n, e)
  ELSE Rounded(ShiftRight(n, drop - 1), e + drop, inexact \/ AnyBelow(n, drop - 1))

\* The double nearest to n * 2^e, or to a value just above it when inexact
\* (n then has more than 54 bits).
RoundToDouble(n, e, inexact) ==
  IF n = <<>> THEN Number(<<>>, 0) ELSE DropBits(n, e, inexact, BitLength(n) - 53)

\* x * y and x + y of Numbers that are not negative.
Times(x, y) ==
  IF x.nan \/ y.nan THEN NotANumber
  ELSE RoundToDouble(TimesLimbs(x.m, y.m), x.e + y.e, FALSE)

Aligned(x, y, e) ==
  RoundToDouble(AddLimbs(ShiftLeft(x.m, x.e - e), ShiftLeft(y.m, y.e - e), 0), e, FALSE)

Plus(x, y) ==
  IF x.nan \/ y.nan THEN NotANumber
  ELSE IF x.m = <<>> THEN y
  ELSE IF y.m = <<>> THEN x
  ELSE Aligned(x, y, IF x.e < y.e THEN x.e ELSE y.e)

\* x / d for an integer 0 < d <= Limb: the quotient is cut 70 bits below x.
Quotient(cut, e) == RoundToDouble(cut.q, e, cut.r # 0)

Over(x, d) ==
  IF x.nan THEN NotANumber ELSE Quotient(DivSmall(ShiftLeft(x.m, 70), d), x.e - 70)

\* Math.min(x, 1).
MathMin1(x) ==
  IF x.nan THEN NotANumber
  ELSE IF x.m # <<>> /\ BitLength(x.m) + x.e >= 1 THEN Integral(1)
  ELSE x

\* Math.round(x) of a Number that is not NaN, as an integer: the integer
\* part of x + 1/2.
MathRound(x) ==
  IF x.e >= 0 THEN LimbsNat(ShiftLeft(x.m, x.e))
  ELSE LimbsNat(ShiftRight(AddLimbs(x.m, ShiftLeft(<<1>>, -x.e - 1), 0), -x.e))

\* The natural number a string of decimal digits states.
RECURSIVE DigitsLimbs(_, _)
DigitsLimbs(ds, acc) ==
  IF ds = <<>> THEN acc
  ELSE DigitsLimbs(Tail(ds), IF acc = <<>> THEN NatLimbs(DigitVal(Head(ds)))
                             ELSE TimesSmall(acc, 10, DigitVal(Head(ds))))

\* n / 10^f, cut to its integer part, as the Number nearest to it times 2^e.
RECURSIVE OverTen(_, _, _, _)
OverTen(n, f, e, inexact) ==
  IF f = 0 THEN RoundToDouble(n, e, inexact)
  ELSE IF DivSmall(n, 10).r = 0 THEN OverTen(DivSmall(n, 10).q, f - 1, e, inexact)
  ELSE OverTen(DivSmall(n, 10).q, f - 1, e, TRUE)

\* The Number of the decimal numeral with the given digits, the last f of
\* them behind the point: the quotient is cut 4 * f + 60 bits below 1.
Decimal(ds, f) == OverTen(ShiftLeft(DigitsLimbs(ds, <<>>), 4 * f + 60), f, -(4 * f + 60), FALSE)

(***************************************************************************)
(* calculateVideoScore.  The score is returned in hundredths, as the       *)
(* integer Math.round(score * 100); NaN is returned when parseFloat yields *)
(* NaN.                                                                    *)
(***************************************************************************)
NaN == -1

qualityScore(quality) ==
  CASE quality = Q4K -> 100
    [] quality = Q2K -> 85
    [] quality = Q1080p -> 75
    [] quality = Q720p -> 60
    [] quality = Q480p -> 40
    [] quality = QSD -> 20
    [] OTHER -> 30

\* Length of the longest prefix of s made of characters of set cs.
RECURSIVE PrefixLen(_, _)
PrefixLen(s, cs) ==
  IF s = <<>> THEN 0
  ELSE IF Head(s) \in cs THEN 1 + PrefixLen(Tail(s), cs) ELSE 0

Drop(s, n) == SubSeq(s, n + 1, Len(s))

\* speedStr.match(/^([\d.]+)\s*(KB\/s|MB\/s)$/): <<>> when there is no match,
\* else <<number part, unit>>.
SpeedMatch(s) ==
  LET n == PrefixLen(s, Digits \cup {"."})
      rest == Drop(s, n)
      w == PrefixLen(rest, WhiteSpace)
      unit == Drop(rest, w)
  IN IF n = 0 THEN <<>>
     ELSE IF unit = <<"K", "B", "/", "s">> THEN <<SubSeq(s, 1, n), "KB/s">>
     ELSE IF unit = <<"M", "B", "/", "s">> THEN <<SubSeq(s, 1, n), "MB/s">>
     ELSE <<>>

\* The numeral parseFloat reads at the start of a string of digits and dots,
\* its longest prefix of the form digits, digits.digits or .digits: the
\* digits of the numeral and the count f of those behind the point; nan
\* when the string does not start with a number.
Numeral(m) ==
  LET i == PrefixLen(m, Digits)
      afterInt == Drop(m, i)
      hasDot == afterInt # <<>> /\ Head(afterInt) = "."
      f == IF hasDot THEN PrefixLen(Tail(afterInt), Digits) ELSE 0
  IN [nan |-> i = 0 /\ f = 0,
      digits |-> SubSeq(m, 1, i) \o (IF hasDot THEN SubSeq(Tail(afterInt), 1, f) ELSE <<>>),
      f |-> f]

\* parseFloat on a string of digits and dots: the Number nearest to the
\* numeral it reads.
NumeralValue(numeral) ==
  IF numeral.nan THEN NotANumber ELSE Decimal(numeral.digits, numeral.f)

parseFloat(m) == NumeralValue(Numeral(m))

maxSpeed == 5120
minPing == 50
maxPing == 1000

\* The literals 0.4 and 0.2: the doubles 3602879701896397 / 2^53 and
\* 3602879701896397 / 2^54.
Weight40 == Number(<<6554, 13107, 26214, 204>>, -54)
Weight20 == Number(<<6554, 13107, 26214, 204>>, -55)

speedKBps(value, unit) == IF unit = "MB/s" THEN Times(value, Integral(1024)) ELSE value

speedRatio(speed) == MathMin1(Over(speed, maxSpeed))

speedScore(loadSpeed) ==
  IF loadSpeed = UnknownLabel \/ loadSpeed = MeasuringLabel THEN Integral(30)
  ELSE IF SpeedMatch(loadSpeed) = <<>> THEN Integral(30)
  ELSE Times(speedRatio(speedKBps(parseFloat(SpeedMatch(loadSpeed)[1]),
                                  SpeedMatch(loadSpeed)[2])), Integral(100))

\* pingScore that rises with the latency between minPing and maxPing.
pingScore_Rising(ping) ==
  IF ping <= 0 THEN Integral(0)
  ELSE IF ping <= minPing THEN Integral(100)
  ELSE IF ping >= maxPing THEN Integral(0)
  ELSE Times(Over(Integral(ping - minPing), maxPing - minPing), Integral(100))

pingScore(ping) ==
  IF ping <= 0 THEN Integral(0)
  ELSE IF ping <= minPing THEN Integral(100)
  ELSE IF ping >= maxPing THEN Integral(0)
  ELSE Times(Over(Integral(maxPing - ping), maxPing - minPing), Integral(100))

\* Math.round(score * 100), the score in hundredths.
Hundredths(score) == IF score.nan THEN NaN ELSE MathRound(Times(score, Integral(100)))

\* The variable score before it is rounded.
score(videoInfo) ==
  Plus(Plus(Plus(Integral(0), Times(Integral(qualityScore(videoInfo.quality)), Weight40)),
            Times(speedScore(videoInfo.loadSpeed), Weight40)),
       Times(pingScore(videoInfo.pingTime), Weight20))

(***************************************************************************)
(* Candidates.  videoInfo and detail are optional values: <<>> when        *)
(* absent, <<v>> when present.  episodes is the list of episode locators.  *)
(***************************************************************************)
VideoInfo(quality, loadSpeed, pingTime) ==
  [quality |-> quality, loadSpeed |-> loadSpeed, pingTime |-> pingTime]

SearchResult(source, id, title, episodes, videoInfo) ==
  [source |-> source, source_name |-> SourceName(source), id |-> id, title |-> title,
   episodes |-> episodes, videoInfo |-> videoInfo, resolution |-> Undefined]

Fast == VideoInfo(Q720p, <<"5", " ", "M", "B", "/", "s">>, 40)
Slow == VideoInfo(Q4K, <<"5", "1", "2", " ", "K", "B", "/", "s">>, 1000)
Unmeasured == VideoInfo(Q1080p, UnknownLabel, 0)
\* A label the pattern accepts and parseFloat does not: the score is NaN.
Garbled == VideoInfo(Q1080p, <<".", " ", "K", "B", "/", "s">>, 100)

\* The measurements of the candidates the specifications rank.
Qualities == {Q4K, Q2K, Q1080p, Q720p, Q480p, QSD, Q360p}

SpeedLabels ==
  {<<"0", " ", "K", "B", "/", "s">>,
   <<"5", "1", "2", " ", "K", "B", "/", "s">>,
   <<"1", ".", "2", "3", "4", "5", " ", "M", "B", "/", "s">>,
   <<"5", "1", "2", "0", "K", "B", "/", "s">>,
   <<"4", "7", "0", ".", "4", " ", "K", "B", "/", "s">>,
   <<"5", " ", "M", "B", "/", "s">>,
   <<"6", "\t", "U+00A0", "M", "B", "/", "s">>,
   <<"9", "9", "9", "9", ".", "9", " ", "K", "B", "/", "s">>,
   <<".", " ", "K", "B", "/", "s">>,
   UnknownLabel}

Pings == {-5, 0, 1, 40, 50, 51, 300, 999, 1000, 2000}

VideoInfos ==
  {VideoInfo(quality, loadSpeed, pingTime) :
     quality \in Qualities, loadSpeed \in SpeedLabels, pingTime \in Pings}

\* calculateVideoScore on these measurements, computed once.
Scores ==
  [videoInfo \in VideoInfos \cup {Fast, Slow, Unmeasured, Garbled} |->
     Hundredths(score(videoInfo))]

calculateVideoScore(videoInfo) ==
  IF videoInfo \in DOMAIN Scores THEN Scores[videoInfo] ELSE Hundredths(score(videoInfo))

VARIABLES
  q, searchResults, sources, detail, loading, error, allSourcesLoaded,
  controller, isFavorited, failedSources,
  aborted, sess, favPending, baseURL, favorites, ret, marked

vars == <<q, searchResults, sources, detail, loading, error, allSourcesLoaded,
          controller, isFavorited, failedSources, aborted, sess, favPending, baseURL,
          favorites, ret, marked>>

(***************************************************************************)
(* processAndSetResults                                                    *)
(***************************************************************************)
\* The candidates of a batch whose resolution is probed (no videoInfo, at
\* least one episode).
NeedsProbe(r) == r.videoInfo = <<>> /\ Len(r.episodes) > 0

ProbeIndexes(results) == {i \in 1..Len(results) : NeedsProbe(results[i])}

\* resultsWithResolution, given the outcome of each probe (Undefined when
\* the probe failed).
WithResolution(results, probe) ==
  [i \in 1..Len(results) |->
     IF results[i].videoInfo # <<>>
       THEN [results[i] EXCEPT !.resolution = results[i].videoInfo[1].quality]
     ELSE IF NeedsProbe(results[i])
       THEN [results[i] EXCEPT !.resolution = probe[i]]
     ELSE [results[i] EXCEPT !.resolution = Undefined]]

\* finalResults that takes the batch in place of the result set in append
\* mode too.
FinalResults_Overwrite(current, resultsWithResolution, merge) == resultsWithResolution

\* finalResults of the set() callback.
FinalResults(current, resultsWithResolution, merge) ==
  LET existingSources == {current[i].source : i \in 1..Len(current)}
      newResults == SelectSeq(resultsWithResolution, LAMBDA r : r.source \notin existingSources)
  IN IF merge THEN current \o newResults ELSE resultsWithResolution

SourcesOf(results) ==
  [i \in 1..Len(results) |->
     [source |-> results[i].source, source_name |-> results[i].source_name,
      resolution |-> results[i].resolution, videoInfo |-> results[i].videoInfo]]

(***************************************************************************)
(* markSourceAsFailed, getNextAvailableSource                              *)
(***************************************************************************)
\* ret is what the step returned to its caller when the step is a call of
\* getNextAvailableSource, with the arguments of the call; NoReturn after
\* any other step.
NoReturn == [called |-> FALSE, currentSource |-> Null, episodeIndex |-> 0, result |-> <<>>]

\* marked is the call the step made when the step is a call of
\* markSourceAsFailed: its argument and failedSources as the call found it;
\* NoMark after any other step.
NoMark == [called |-> FALSE, source |-> Null, before |-> {}]

\* markSourceAsFailed that starts from an empty set instead of a copy.
markSourceAsFailed_FromEmpty(source) ==
  /\ failedSources' = {source}
  /\ ret' = NoReturn
  /\ marked' = [called |-> TRUE, source |-> source, before |-> failedSources]
  /\ UNCHANGED <<q, searchResults, sources, detail, loading, error, allSourcesLoaded,
                 controller, isFavorited, aborted, sess, favPending, baseURL, favorites>>

\* markSourceAsFailed that takes back a source that is already in the set.
markSourceAsFailed_Toggle(source) ==
  /\ failedSources' = IF source \in failedSources THEN failedSources \ {source}
                      ELSE failedSources \cup {source}
  /\ ret' = NoReturn
  /\ marked' = [called |-> TRUE, source |-> source, before |-> failedSources]
  /\ UNCHANGED <<q, searchResults, sources, detail, loading, error, allSourcesLoaded,
                 controller, isFavorited, aborted, sess, favPending, baseURL, favorites>>

markSourceAsFailed(source) ==
  /\ failedSources' = failedSources \cup {source}
  /\ ret' = NoReturn
  /\ marked' = [called |-> TRUE, source |-> source, before |-> failedSources]
  /\ UNCHANGED <<q, searchResults, sources, detail, loading, error, allSourcesLoaded,
                 controller, isFavorited, aborted, sess, favPending, baseURL, favorites>>

\* The filter without the test of failedSources.
Passes_IgnoresFailed(result, failed, currentSource, episodeIndex) ==
  /\ result.source # currentSource
  /\ Len(result.episodes) > episodeIndex

Passes(result, failed, currentSource, episodeIndex) ==
  /\ result.source # currentSource
  /\ result.source \notin failed
  /\ Len(result.episodes) > episodeIndex

availableSources(results, failed, currentSource, episodeIndex) ==
  SelectSeq(results, LAMBDA r : Passes(r, failed, currentSource, episodeIndex))

\* s.includes(sub) on labels.
Includes(s, sub) ==
  \E i \in 1..(Len(s) - Len(sub) + 1) : SubSeq(s, i, i + Len(sub) - 1) = sub

resolutionPriority(res) ==
  IF Includes(res, <<"1", "0", "8", "0">>) THEN 4
  ELSE IF Includes(res, <<"7", "2", "0">>) THEN 3
  ELSE IF Includes(res, <<"4", "8", "0">>) THEN 2
  ELSE IF Includes(res, <<"3", "6", "0">>) THEN 1
  ELSE 0

\* The comparator passed to sort; a NaN difference counts as 0.
Compare(a, b) ==
  IF a.videoInfo # <<>> /\ b.videoInfo # <<>>
    THEN LET scoreA == calculateVideoScore(a.videoInfo[1])
             scoreB == calculateVideoScore(b.videoInfo[1])
         IN IF scoreA = NaN \/ scoreB = NaN THEN 0 ELSE scoreB - scoreA
  ELSE LET aResolution == IF a.resolution \in {Undefined, <<>>} THEN <<>> ELSE a.resolution
           bResolution == IF b.resolution \in {Undefined, <<>>} THEN <<>> ELSE b.resolution
       IN resolutionPriority(bResolution) - resolutionPriority(aResolution)

Sign(n) == IF n < 0 THEN -1 ELSE IF n > 0 THEN 1 ELSE 0

\* ECMAScript's "consistent comparator" over the elements of xs, from the
\* signs of the comparisons of every two of them.
Consistent(xs) ==
  LET n == Len(xs)
  IN \A sgn \in {[i \in 1..n |-> [j \in 1..n |-> Sign(Compare(xs[i], xs[j]))]]} :
       /\ \A i, j \in 1..n : sgn[i][j] = -sgn[j][i]
       /\ \A i, j, k \in 1..n :
            /\ (sgn[i][j] = 0 /\ sgn[j][k] = 0) => sgn[i][k] = 0
            /\ (sgn[i][j] < 0 /\ sgn[j][k] < 0) => sgn[i][k] < 0

\* Stable insertion: x goes before the first element that sorts after it.
RECURSIVE Insert(_, _)
Insert(sorted, x) ==
  IF sorted = <<>> THEN <<x>>
  ELSE IF Compare(Head(sorted), x) > 0 THEN <<x>> \o sorted
  ELSE <<Head(sorted)>> \o Insert(Tail(sorted), x)

RECURSIVE StableSort(_)
StableSort(xs) ==
  IF xs = <<>> THEN <<>>
  ELSE Insert(StableSort(SubSeq(xs, 1, Len(xs) - 1)), xs[Len(xs)])

Orderings(xs) ==
  LET n == Len(xs)
      Bij == {f \in [1..n -> 1..n] : \A i, j \in 1..n : f[i] = f[j] => i = j}
  IN {[i \in 1..n |-> xs[f[i]]] : f \in Bij}

\* Array.prototype.sort is stable; with a comparator that is not consistent
\* the order is implementation-defined.
SortOutcomes(xs) == IF Consistent(xs) THEN {StableSort(xs)} ELSE Orderings(xs)

\* getNextAvailableSource that ranks the candidates of other, not failed
\* sources first and then asks the best one for the episode.
getNextAvailableSource_RankFirst(currentSource, episodeIndex) ==
  LET others == availableSources(searchResults, failedSources, currentSource, -1)
  IN /\ \/ /\ Len(others) = 0
           /\ ret' = [called |-> TRUE, currentSource |-> currentSource,
                      episodeIndex |-> episodeIndex, result |-> <<>>]
        \/ /\ Len(others) > 0
           /\ \E sortedSources \in SortOutcomes(others) :
                ret' = [called |-> TRUE, currentSource |-> currentSource,
                        episodeIndex |-> episodeIndex,
                        result |-> IF Len(sortedSources[1].episodes) > episodeIndex
                                     THEN <<sortedSources[1]>> ELSE <<>>]
     /\ marked' = NoMark
     /\ UNCHANGED <<q, searchResults, sources, detail, loading, error, allSourcesLoaded,
                    controller, isFavorited, failedSources, aborted, sess, favPending, baseURL, favorites>>

\* getNextAvailableSource that sorts the array of the store: the candidates
\* that pass the filter take, in their sorted order, the places they held.
getNextAvailableSource_SortsStore(currentSource, episodeIndex) ==
  LET available == availableSources(searchResults, failedSources, currentSource, episodeIndex)
      places == {i \in 1..Len(searchResults) :
                   Passes(searchResults[i], failedSources, currentSource, episodeIndex)}
      rank(i) == Cardinality({j \in places : j <= i})
  IN /\ \/ /\ Len(available) = 0
           /\ ret' = [called |-> TRUE, currentSource |-> currentSource,
                      episodeIndex |-> episodeIndex, result |-> <<>>]
           /\ UNCHANGED searchResults
        \/ /\ Len(available) > 0
           /\ \E sortedSources \in SortOutcomes(available) :
                /\ ret' = [called |-> TRUE, currentSource |-> currentSource,
                           episodeIndex |-> episodeIndex, result |-> <<sortedSources[1]>>]
                /\ searchResults' = [i \in 1..Len(searchResults) |->
                                       IF i \in places THEN sortedSources[rank(i)]
                                       ELSE searchResults[i]]
     /\ marked' = NoMark
     /\ UNCHANGED <<q, sources, detail, loading, error, allSourcesLoaded,
                    controller, isFavorited, failedSources, aborted, sess, favPending, baseURL, favorites>>

\* What getNextAvailableSource can return over the given result set and
\* failed set: <<>> for null, else <<selectedSource>>.
selectedSource(results, failed, currentSource, episodeIndex) ==
  LET available == availableSources(results, failed, currentSource, episodeIndex)
  IN IF Len(available) = 0 THEN {<<>>}
     ELSE {<<sortedSources[1]>> : sortedSources \in SortOutcomes(available)}

getNextAvailableSource(currentSource, episodeIndex) ==
  /\ \E selected \in selectedSource(searchResults, failedSources, currentSource, episodeIndex) :
       ret' = [called |-> TRUE, currentSource |-> currentSource,
               episodeIndex |-> episodeIndex, result |-> selected]
  /\ marked' = NoMark
  /\ UNCHANGED <<q, searchResults, sources, detail, loading, error, allSourcesLoaded,
                 controller, isFavorited, failedSources, aborted, sess, favPending, baseURL, favorites>>

(***************************************************************************)
(* The collaborators: what a call can answer.                              *)
(***************************************************************************)
a1 == SearchResult("A", 1, "X", <<"a1/1", "a1/2">>, <<>>)
a2 == SearchResult("A", 2, "X", <<"a2/1">>, <<Fast>>)
b1 == SearchResult("B", 1, "X", <<"b1/1", "b1/2", "b1/3">>, <<Slow>>)
bY == SearchResult("B", 2, "Y", <<"bY/1">>, <<Fast>>)
c1 == SearchResult("C", 1, "X", <<>>, <<>>)

\* Bodies of /api/search/one for a resource, before searchVideo filters them.
RawOne(key) ==
  IF key = "A" THEN {<<>>, <<a2, a1>>}
  ELSE IF key = "B" THEN {<<b1, bY>>}
  ELSE {<<c1>>}

\* Bodies of /api/search.
RawAll == {<<bY>>, <<b1, bY>>, <<a1, b1>>}

\* Bodies of /api/search/resources.
ApiSite(key) == [key |-> key, name |-> SourceName(key)]
Catalogs == {<<>>, <<ApiSite("A"), ApiSite("B")>>}

\* videoSource of the settings store.
VideoSources ==
  {[enabledAll |-> TRUE, sources |-> {}],
   [enabledAll |-> FALSE, sources |-> {"A"}],
   [enabledAll |-> FALSE, sources |-> {}]}

\* Answers of getResolutionFromM3U8; Undefined stands for a failed probe.
ProbeOutcomes == {Q720p, Undefined}

\* The keys of FavoriteManager: the source and id.toString().
FavKey(r) == <<r.source, ToString(r.id)>>

FavKeys == {<<source, ToString(id)>> : source \in Sources, id \in 1..2}

\* The favorites FavoriteManager has stored when the store is constructed.
Favorites == {<<"A", "1">>, <<"B", "1">>}

\* The calls of FavoriteManager that setDetail and toggleFavorite may have in
\* flight at a time.
MaxPending == 2

\* The sources init may be given as preferredSource (with an id).
PreferredSources == {"A"}

\* A candidate a caller may still hold from an earlier render.
Stale == [a2 EXCEPT !.resolution = Q720p]

Sessions == 1..MaxSessions

(***************************************************************************)
(* The store fields an init writes after its first await, as one record.   *)
(***************************************************************************)
Cur ==
  [searchResults |-> searchResults, sources |-> sources, detail |-> detail,
   loading |-> loading, error |-> error, allSourcesLoaded |-> allSourcesLoaded,
   isFavorited |-> isFavorited]

SetStore(st) ==
  /\ searchResults' = st.searchResults
  /\ sources' = st.sources
  /\ detail' = st.detail
  /\ loading' = st.loading
  /\ error' = st.error
  /\ allSourcesLoaded' = st.allSourcesLoaded
  /\ isFavorited' = st.isFavorited

\* Local state of one init call.  sent tells whether the call it awaits
\* reached fetch.  dropped, path and got are the record of
\* what the call did: whether one of its batches was discarded, which branch
\* it took ("preferred" once the preferred batch is accepted, "fallback" once
\* the all-sources fallback has answered candidates of the title, "standard"
\* once the single-source searches are issued), and the candidates the
\* provider calls of that branch answered, in the order of their arrival.
NoCall == [st |-> "none", results |-> <<>>]
Fresh ==
  [pc |-> "idle", q |-> Null, preferredSource |-> Null,
   videoSource |-> [enabledAll |-> TRUE, sources |-> {}], results |-> <<>>,
   fan |-> [r \in Sources |-> NoCall], firstResultFound |-> FALSE, totalResults |-> 0,
   favKey |-> <<>>, sent |-> TRUE, dropped |-> FALSE, path |-> "none", got |-> <<>>]

\* The record is kept for the call of the session on display: it is dropped
\* when a later init replaces the session.
Forgotten(l) == [l EXCEPT !.path = "none", !.got = <<>>]

\* An init call that has returned keeps nothing but the record of what it
\* did.
Finished(l) == [Fresh EXCEPT !.pc = "done", !.dropped = l.dropped,
                             !.path = l.path, !.got = l.got]

\* processAndSetResults without the abort check before set().
Processed_NoAbortCheck(st, s, results, probe, merge) ==
  LET finalResults == FinalResults(st.searchResults, WithResolution(results, probe), merge)
  IN [st EXCEPT !.searchResults = finalResults,
                !.sources = SourcesOf(finalResults),
                !.detail = IF st.detail # <<>> THEN st.detail
                           ELSE IF finalResults # <<>> THEN <<finalResults[1]>>
                           ELSE <<>>]

\* processAndSetResults that shows the first candidate of every batch it
\* merges.
Processed_DetailFollowsBatch(st, s, results, probe, merge) ==
  IF aborted[s] THEN st
  ELSE LET finalResults == FinalResults(st.searchResults, WithResolution(results, probe), merge)
       IN [st EXCEPT !.searchResults = finalResults,
                     !.sources = SourcesOf(finalResults),
                     !.detail = IF results # <<>>
                                  THEN <<WithResolution(results, probe)[1]>>
                                  ELSE st.detail]

\* The set() of processAndSetResults, behind its abort check.
Processed(st, s, results, probe, merge) ==
  IF aborted[s] THEN st
  ELSE LET finalResults == FinalResults(st.searchResults, WithResolution(results, probe), merge)
       IN [st EXCEPT !.searchResults = finalResults,
                     !.sources = SourcesOf(finalResults),
                     !.detail = IF st.detail # <<>> THEN st.detail
                                ELSE IF finalResults # <<>> THEN <<finalResults[1]>>
                                ELSE <<>>]

Probes(results) == [ProbeIndexes(results) -> ProbeOutcomes]
NoProbe == [i \in {} |-> Undefined]

\* The finally block without its set().
Finally_SetsNothing(st, s) == st

\* The finally block of init.
Finally(st, s) ==
  IF aborted[s] THEN st ELSE [st EXCEPT !.loading = FALSE, !.allSourcesLoaded = TRUE]

\* The sessions other than s as a step of session s leaves them: the init
\* that starts s (s is not the stored controller yet) drops the records of
\* the sessions it replaces.
Others(s) == [x \in Sessions |-> IF s > controller THEN Forgotten(sess[x]) ELSE sess[x]]

\* The step of session s ends here: the store is st and the call waits at
\* its next await (or has returned) with local state l.
Continue(s, st, l) ==
  /\ SetStore(st)
  /\ sess' = [Others(s) EXCEPT ![s] = l]

\* A return from inside the try block.
Return(s, st, l) == Continue(s, Finally(st, s), Finished(l))

\* The end of init, from the final check on: the error for an empty result
\* set, then the favorite check of the displayed candidate or the finally
\* block.
EndOfSearch(s, st, l) ==
  LET finalState == st
      checked == IF Len(finalState.searchResults) = 0 /\ finalState.error = Null
                   THEN [st EXCEPT !.error = "no source found (final check)"]
                   ELSE st
  IN IF finalState.detail # <<>>
       THEN Continue(s, checked, [Finished(l) EXCEPT !.pc = "favorite",
                                                     !.favKey = FavKey(finalState.detail[1])])
       ELSE Continue(s, Finally(checked, s), Finished(l))

TitleFilter(results, query) == SelectSeq(results, LAMBDA item : item.title = query)

(***************************************************************************)
(* API._fetch and the calls built on it.                                   *)
(***************************************************************************)
\* What fetch and the reading of a body reject with: AbortError when the
\* signal of the request is aborted, a TypeError when the request fails.
AbortError == [name |-> "AbortError", message |-> "Aborted"]
NetworkError == [name |-> "TypeError", message |-> "Network request failed"]

Error(message) == [name |-> "Error", message |-> message]

\* The base URL the constructor sets when it is given none, and the values
\* setBaseUrl is called with.
ApiUrl == "https://tv.kelvin.dpdns.org"
BaseUrls == {"", ApiUrl}

\* The statuses of the responses that are not ok.
ErrorStatuses == {401, 500}

\* Signals are named by the session that owns them; NoSignal is the absent
\* options.signal and TimerSignal the signal of _fetch's own controller.
NoSignal == 0
TimerSignal == -1

\* The signal _fetch hands to fetch (options.signal || controller.signal):
\* the caller's when there is one, else the one its own timer aborts.
FetchSignal(callerSignal) == IF callerSignal # NoSignal THEN callerSignal ELSE TimerSignal

\* The rejections of fetch under _fetch, given the caller's signal (NoSignal
\* for none) and whether that signal is aborted.  The timer ends the call only
\* when fetch was given the timer's signal.
Rejections(callerSignal, signalAborted) ==
  {NetworkError} \cup
    (IF FetchSignal(callerSignal) = TimerSignal \/ signalAborted THEN {AbortError} ELSE {})

\* The catch block of _fetch: what it throws for a rejection of fetch.
FetchThrows(rejection) ==
  IF rejection.name = "AbortError" THEN Error("Request timeout") ELSE rejection

\* What _fetch throws for a response that is not ok; the catch block throws
\* it again.
StatusThrows(status) ==
  FetchThrows(IF status = 401 THEN Error("UNAUTHORIZED")
              ELSE Error("HTTP error! status: " \o ToString(status)))

\* What _fetch throws before any request when no base URL is set; the call
\* rejects in the task that made it.
UrlNotSet == <<"error", Error("API_URL_NOT_SET")>>

\* The rejections of response.json(), awaited outside _fetch: the body of a
\* request bound to the caller's signal can be cut by that signal (the timer
\* of _fetch is cleared by then).
BodyRejections(callerSignal, signalAborted) ==
  IF callerSignal # NoSignal /\ signalAborted THEN {AbortError} ELSE {}

\* What a call that reached fetch can answer when it settles: <<"error", e>>
\* with e the error it rejects with, or <<"ok", body>>.  A body that was
\* complete before the signal was aborted is still delivered.
Answers(callerSignal, signalAborted, bodies) ==
  {<<"error", FetchThrows(r)>> : r \in Rejections(callerSignal, signalAborted)}
    \cup {<<"error", StatusThrows(status)>> : status \in ErrorStatuses}
    \cup {<<"error", r>> : r \in BodyRejections(callerSignal, signalAborted)}
    \cup {<<"ok", body>> : body \in bodies}

\* A call bound to the session's signal (searchVideo, getResources).
SignalledAnswers(s, bodies) == Answers(s, aborted[s], bodies)

\* A call that is not bound to the signal (searchVideos).
UnsignalledAnswers(bodies) == Answers(NoSignal, FALSE, bodies)

\* The message set({ error }) builds from the message of a caught error.
SearchFailed(e) == "search failed: " \o e.message

GetResourcesFailed(e) == "get resources failed: " \o e.message

setBaseUrl(url) ==
  /\ baseURL' = url
  /\ ret' = NoReturn
  /\ marked' = NoMark
  /\ UNCHANGED <<q, searchResults, sources, detail, loading, error, allSourcesLoaded,
                 controller, isFavorited, failedSources, aborted, sess, favPending, favorites>>

Frame ==
  /\ ret' = NoReturn
  /\ marked' = NoMark
  /\ UNCHANGED <<q, controller, failedSources, aborted, favPending, baseURL, favorites>>

(***************************************************************************)
(* init.  Every await ends a step: the call resumes in a later step even   *)
(* when the promise it awaits is settled already, and steps of the caller  *)
(* or of other calls can come in between.  A ...Settled operator is init    *)
(* from the point where the awaited call settles with the given answer, on *)
(* store st and with local state l, up to the next await.                  *)
(***************************************************************************)
\* The session a step of s leaves on display is s.
OnDisplay(s) == s >= controller

\* init calls the client and awaits the call at position pc; the call
\* reaches fetch when a base URL is set.
Issued(l, pc) == [l EXCEPT !.pc = pc, !.sent = (baseURL # "")]

\* What the awaited call of local state l can settle with: one of answers
\* when it reached fetch.
Outcomes(l, answers) == IF l.sent THEN answers ELSE {UrlNotSet}

\* The Promise.all of processAndSetResults(l.results, merge) resolves with
\* the given probe outcomes: the abort check and the set(); init resumes at
\* position pc when processAndSetResults has returned.
ProbesSettled(s, st, l, probe, merge, pc) ==
  Continue(s, Processed(st, s, l.results, probe, merge),
           [l EXCEPT !.pc = pc, !.results = <<>>, !.dropped = l.dropped \/ aborted[s]])

(***************************************************************************)
(* init, preferred-source path.                                            *)
(***************************************************************************)
\* The fallback api.searchVideos(q) settles.
FallbackSearchSettled(s, st, l, answer) ==
  LET filteredResults == IF answer[1] = "ok" THEN TitleFilter(answer[2], l.q) ELSE <<>>
      \* noted for the session on display only
      hit == IF OnDisplay(s)
               THEN [l EXCEPT !.path = "fallback", !.got = filteredResults]
               ELSE l
  IN IF answer[1] = "error"
       THEN EndOfSearch(s, [st EXCEPT !.error = SearchFailed(answer[2]), !.loading = FALSE], l)
     ELSE IF Len(filteredResults) = 0
       THEN EndOfSearch(s, [st EXCEPT !.error = "no source found (fallback)",
                                      !.loading = FALSE], l)
     ELSE Continue(s, st, [hit EXCEPT !.pc = "fallbackProbe", !.results = filteredResults])

FallbackSearchDone(s) ==
  /\ sess[s].pc = "fallback"
  /\ \E answer \in Outcomes(sess[s], UnsignalledAnswers(RawAll)) :
       FallbackSearchSettled(s, Cur, sess[s], answer)
  /\ Frame

FallbackProbeDone(s) ==
  /\ sess[s].pc = "fallbackProbe"
  /\ \E probe \in Probes(sess[s].results) :
       ProbesSettled(s, Cur, sess[s], probe, FALSE, "fallbackMerged")
  /\ Frame

\* processAndSetResults(filteredResults, false) has returned.
FallbackMerged(s) ==
  /\ sess[s].pc = "fallbackMerged"
  /\ EndOfSearch(s, [Cur EXCEPT !.loading = FALSE], sess[s])
  /\ Frame

\* The background api.searchVideos(q) settles.
BackgroundSearchSettled(s, st, l, answer) ==
  LET batch == IF answer[1] = "ok" THEN TitleFilter(answer[2], l.q) ELSE <<>>
  IN IF answer[1] = "error" THEN EndOfSearch(s, st, l)
     ELSE IF aborted[s] THEN Return(s, st, l)
     ELSE Continue(s, st, [l EXCEPT !.pc = "backgroundProbe", !.results = batch])

BackgroundSearchDone(s) ==
  /\ sess[s].pc = "background"
  /\ \E answer \in Outcomes(sess[s], UnsignalledAnswers(RawAll)) :
       BackgroundSearchSettled(s, Cur, sess[s], answer)
  /\ Frame

BackgroundProbeDone(s) ==
  /\ sess[s].pc = "backgroundProbe"
  /\ \E probe \in Probes(sess[s].results) :
       ProbesSettled(s, Cur, sess[s], probe, TRUE, "backgroundMerged")
  /\ Frame

\* processAndSetResults(..., true) of the background batch has returned.
BackgroundMerged(s) ==
  /\ sess[s].pc = "backgroundMerged"
  /\ EndOfSearch(s, Cur, sess[s])
  /\ Frame

\* api.searchVideo(q, preferredSource, signal) settles.
PreferredSearchSettled(s, st, l, answer) ==
  LET preferredResult == IF answer[1] = "ok" THEN TitleFilter(answer[2], l.q) ELSE <<>>
      hit == [l EXCEPT !.path = "preferred", !.got = preferredResult]
  IN IF aborted[s] THEN Return(s, st, l)
     ELSE IF Len(preferredResult) > 0
       THEN Continue(s, st, [hit EXCEPT !.pc = "preferredProbe", !.results = preferredResult])
     ELSE Continue(s, st, Issued(l, "fallback"))

PreferredSearchDone(s) ==
  /\ sess[s].pc = "preferred"
  /\ \E answer \in Outcomes(sess[s], SignalledAnswers(s, RawOne(sess[s].preferredSource))) :
       PreferredSearchSettled(s, Cur, sess[s], answer)
  /\ Frame

PreferredProbeDone(s) ==
  /\ sess[s].pc = "preferredProbe"
  /\ \E probe \in Probes(sess[s].results) :
       ProbesSettled(s, Cur, sess[s], probe, FALSE, "preferredMerged")
  /\ Frame

\* processAndSetResults(preferredResult, false) has returned: loading is
\* cleared and the background search is issued.
PreferredMerged(s) ==
  /\ sess[s].pc = "preferredMerged"
  /\ Continue(s, [Cur EXCEPT !.loading = FALSE], Issued(sess[s], "background"))
  /\ Frame

(***************************************************************************)
(* init, standard path.                                                    *)
(***************************************************************************)
enabledResources(videoSource, allResources) ==
  IF videoSource.enabledAll THEN allResources
  ELSE SelectSeq(allResources, LAMBDA r : r.key \in videoSource.sources)

\* Every task of searchPromises has finished and Promise.all has resolved:
\* init goes on to its end.
Joined(s) ==
  /\ sess[s].pc = "fanout"
  /\ \A r \in Sources : sess[s].fan[r].st \in {"none", "done"}
  /\ EndOfSearch(s, IF sess[s].totalResults = 0
                      THEN [Cur EXCEPT !.error = "no source found (standard)",
                                       !.loading = FALSE]
                      ELSE Cur, sess[s])
  /\ Frame

\* init calls api.searchVideo(q, resource.key, signal) for every resource of
\* keys and awaits the tasks.
ResourceSearchesIssued(s, st, l, keys) ==
  Continue(s, st, Issued([l EXCEPT !.path = "standard", !.videoSource = Fresh.videoSource,
                                   !.fan = [r \in Sources |->
                                              IF r \in keys
                                                THEN [NoCall EXCEPT !.st = "pending"]
                                                ELSE NoCall]], "fanout"))

\* getResourcesSettled without the test for an empty list of enabled
\* resources: the fan-out of no search is awaited.
getResourcesSettled_NoFailFast(s, st, l, answer) ==
  LET enabled == enabledResources(l.videoSource, answer[2])
      keys == {enabled[i].key : i \in 1..Len(enabled)}
  IN IF answer[1] = "error"
       THEN Return(s, [st EXCEPT !.error = GetResourcesFailed(answer[2]), !.loading = FALSE], l)
     ELSE ResourceSearchesIssued(s, st, l, keys)

\* api.getResources(signal) settles with the given answer; the single-source
\* searches are issued.
getResourcesSettled(s, st, l, answer) ==
  LET enabled == enabledResources(l.videoSource, answer[2])
      keys == {enabled[i].key : i \in 1..Len(enabled)}
  IN IF answer[1] = "error"
       THEN Return(s, [st EXCEPT !.error = GetResourcesFailed(answer[2]), !.loading = FALSE], l)
     ELSE IF Len(enabled) = 0
       THEN Return(s, [st EXCEPT !.error = "no enabled sources", !.loading = FALSE], l)
     ELSE ResourceSearchesIssued(s, st, l, keys)

ResourcesDone(s) ==
  /\ sess[s].pc = "resources"
  /\ \E answer \in Outcomes(sess[s], SignalledAnswers(s, Catalogs)) :
       getResourcesSettled(s, Cur, sess[s], answer)
  /\ Frame

\* api.searchVideo(q, resource.key, signal) settles for resource r: the
\* task ends when it failed or answered nothing.
ResourceSearchDone(s, r) ==
  /\ sess[s].pc = "fanout"
  /\ sess[s].fan[r].st = "pending"
  /\ \E answer \in Outcomes(sess[s], SignalledAnswers(s, RawOne(r))) :
       LET l == sess[s]
           results == IF answer[1] = "ok" THEN TitleFilter(answer[2], l.q) ELSE <<>>
       IN IF Len(results) = 0
            THEN Continue(s, Cur, [l EXCEPT !.fan[r] = [NoCall EXCEPT !.st = "done"]])
          ELSE Continue(s, Cur, [l EXCEPT !.totalResults = l.totalResults + Len(results),
                                          !.got = l.got \o results,
                                          !.fan[r] = [st |-> "probe", results |-> results]])
  /\ Frame

\* The Promise.all of processAndSetResults(results, true) resolves in the
\* task of resource r: the abort check and the set().
ResourceProbeDone(s, r) ==
  /\ sess[s].pc = "fanout"
  /\ sess[s].fan[r].st = "probe"
  /\ \E probe \in Probes(sess[s].fan[r].results) :
       Continue(s, Processed(Cur, s, sess[s].fan[r].results, probe, TRUE),
                [sess[s] EXCEPT !.fan[r] = [NoCall EXCEPT !.st = "merged"],
                                !.dropped = sess[s].dropped \/ aborted[s]])
  /\ Frame

\* The task of resource r without the set({ loading: false }) on the first
\* result.
AfterMerge_KeepsLoading(s, st, l, r) ==
  Continue(s, st, [l EXCEPT !.firstResultFound = TRUE, !.fan[r] = [NoCall EXCEPT !.st = "done"]])

\* processAndSetResults(results, true) has returned in the task of resource
\* r, which ends.
AfterMerge(s, st, l, r) ==
  Continue(s, IF l.firstResultFound THEN st ELSE [st EXCEPT !.loading = FALSE],
           [l EXCEPT !.firstResultFound = TRUE, !.fan[r] = [NoCall EXCEPT !.st = "done"]])

ResourceMerged(s, r) ==
  /\ sess[s].pc = "fanout"
  /\ sess[s].fan[r].st = "merged"
  /\ AfterMerge(s, Cur, sess[s], r)
  /\ Frame

(***************************************************************************)
(* init: the synchronous part, up to the first await.                      *)
(***************************************************************************)
\* The store after the first set() of init.
Started(st) ==
  [st EXCEPT !.loading = TRUE, !.searchResults = <<>>, !.detail = <<>>, !.error = Null,
             !.allSourcesLoaded = FALSE]

\* The first call of the new session: the search of the preferred source,
\* or the catalog.
FirstCall(s, st, query, preferredSource, videoSource) ==
  LET l == [Fresh EXCEPT !.q = query, !.preferredSource = preferredSource,
                         !.videoSource = IF preferredSource # Null
                                           THEN Fresh.videoSource
                                           ELSE videoSource]
  IN Continue(s, st, Issued(l, IF preferredSource # Null THEN "preferred" ELSE "resources"))

\* init that does not abort the controller it replaces.
init_KeepsOldController(query, preferredSource, videoSource) ==
  /\ controller < MaxSessions
  /\ LET s == controller + 1
     IN /\ q' = query
        /\ controller' = s
        /\ FirstCall(s, Started(Cur), query, preferredSource, videoSource)
        /\ ret' = NoReturn
        /\ marked' = NoMark
        /\ UNCHANGED <<failedSources, favPending, aborted, baseURL, favorites>>

\* init whose set() leaves allSourcesLoaded as it is.
init_KeepsAllSourcesLoaded(query, preferredSource, videoSource) ==
  /\ controller < MaxSessions
  /\ LET s == controller + 1
     IN /\ aborted' = [x \in Sessions |-> IF x = controller THEN TRUE ELSE aborted[x]]
        /\ q' = query
        /\ controller' = s
        /\ FirstCall(s, [Started(Cur) EXCEPT !.allSourcesLoaded = allSourcesLoaded],
                     query, preferredSource, videoSource)
        /\ ret' = NoReturn
        /\ marked' = NoMark
        /\ UNCHANGED <<failedSources, favPending, baseURL, favorites>>

init(query, preferredSource, videoSource) ==
  /\ controller < MaxSessions
  /\ LET s == controller + 1
     IN /\ aborted' = [x \in Sessions |-> IF x = controller THEN TRUE ELSE aborted[x]]
        /\ q' = query
        /\ controller' = s
        /\ FirstCall(s, Started(Cur), query, preferredSource, videoSource)
        /\ ret' = NoReturn
        /\ marked' = NoMark
        /\ UNCHANGED <<failedSources, favPending, baseURL, favorites>>

abort ==
  /\ controller # 0
  /\ aborted' = [aborted EXCEPT ![controller] = TRUE]
  /\ ret' = NoReturn
  /\ marked' = NoMark
  /\ UNCHANGED <<q, searchResults, sources, detail, loading, error, allSourcesLoaded,
                 controller, isFavorited, failedSources, sess, favPending, baseURL, favorites>>

(***************************************************************************)
(* init: the favorite check of the displayed candidate, then finally.      *)
(***************************************************************************)
\* FavoriteManager.isFavorited settles for init: with an answer (ok) or
\* with a failure, which init catches.
FavoriteCheckSettled(s, ok) ==
  /\ sess[s].pc = "favorite"
  /\ LET l == sess[s]
         st == IF ok THEN [Cur EXCEPT !.isFavorited = (l.favKey \in favorites)] ELSE Cur
     IN Return(s, st, l)
  /\ Frame

FavoriteCheckDone(s) == \E ok \in BOOLEAN : FavoriteCheckSettled(s, ok)

(***************************************************************************)
(* setDetail, toggleFavorite.  favPending is the bag of the calls of       *)
(* FavoriteManager these two have in flight, each <<"check", key>> or      *)
(* <<"toggle", key>>.                                                      *)
(***************************************************************************)
Pending(op, key) == SetToBag({<<op, key>>})

setDetail(d) ==
  /\ BagCardinality(favPending) < MaxPending
  /\ detail' = <<d>>
  /\ favPending' = favPending (+) Pending("check", FavKey(d))
  /\ ret' = NoReturn
  /\ marked' = NoMark
  /\ UNCHANGED <<q, searchResults, sources, loading, error, allSourcesLoaded, controller,
                 isFavorited, failedSources, aborted, sess, baseURL, favorites>>

\* FavoriteManager.isFavorited settles for a setDetail call; when it fails
\* (not ok) setDetail rejects and sets nothing.
SetDetailCheckSettled(key, ok) ==
  /\ BagIn(<<"check", key>>, favPending)
  /\ favPending' = favPending (-) Pending("check", key)
  /\ isFavorited' = IF ok THEN key \in favorites ELSE isFavorited
  /\ ret' = NoReturn
  /\ marked' = NoMark
  /\ UNCHANGED <<q, searchResults, sources, detail, loading, error, allSourcesLoaded,
                 controller, failedSources, aborted, sess, baseURL, favorites>>

SetDetailCheckDone(key) == \E ok \in BOOLEAN : SetDetailCheckSettled(key, ok)

\* toggleFavorite up to its await: nothing without a displayed candidate.
toggleFavorite ==
  /\ detail # <<>> => BagCardinality(favPending) < MaxPending
  /\ favPending' = IF detail = <<>> THEN favPending
                   ELSE favPending (+) Pending("toggle", FavKey(detail[1]))
  /\ ret' = NoReturn
  /\ marked' = NoMark
  /\ UNCHANGED <<q, searchResults, sources, detail, loading, error, allSourcesLoaded,
                 controller, isFavorited, failedSources, aborted, sess, baseURL, favorites>>

\* FavoriteManager.toggle settles for a toggleFavorite call: the stored
\* favorite of the key is added or removed and the new status is set; when
\* it fails (not ok) toggleFavorite rejects and sets nothing.
ToggleSettled(key, ok) ==
  /\ BagIn(<<"toggle", key>>, favPending)
  /\ favPending' = favPending (-) Pending("toggle", key)
  /\ favorites' = IF ~ok THEN favorites
                  ELSE IF key \in favorites THEN favorites \ {key}
                  ELSE favorites \cup {key}
  /\ isFavorited' = IF ok THEN key \notin favorites ELSE isFavorited
  /\ ret' = NoReturn
  /\ marked' = NoMark
  /\ UNCHANGED <<q, searchResults, sources, detail, loading, error, allSourcesLoaded,
                 controller, failedSources, aborted, sess, baseURL>>

ToggleDone(key) == \E ok \in BOOLEAN : ToggleSettled(key, ok)

\* The candidates a caller can pass to setDetail: one of the result set, or
\* one it kept from an earlier result set.
Selectable == {searchResults[i] : i \in 1..Len(searchResults)} \cup {Stale}

(***************************************************************************)
(* Specification of the store.                                             *)
(***************************************************************************)
\* The store after n sessions, with the client at base URL url: as
\* constructed when n = 0, and else as the latest of the sessions left it
\* when it returned with the no-enabled-sources message; the sessions before
\* it are over.
InitAfter(n, url) ==
  /\ controller = n
  /\ q = IF n = 0 THEN Null ELSE "X"
  /\ searchResults = <<>>
  /\ sources = <<>>
  /\ detail = <<>>
  /\ loading = (n = 0)
  /\ error = IF n = 0 THEN Null ELSE "no enabled sources"
  /\ allSourcesLoaded = (n # 0)
  /\ isFavorited = FALSE
  /\ failedSources = {}
  /\ aborted = [s \in Sessions |-> s < n]
  /\ sess = [s \in Sessions |-> IF s <= n THEN Finished(Fresh) ELSE Fresh]
  /\ favPending = EmptyBag
  /\ baseURL = url
  /\ favorites = Favorites
  /\ ret = NoReturn
  /\ marked = NoMark

\* The store as constructed.
Init == InitAfter(0, ApiUrl)

\* The store one session before the last one.
InitLast == InitAfter(MaxSessions - 1, ApiUrl)

\* The store two sessions before the last one, whatever setBaseUrl has made
\* of the base URL.
InitLive == \E url \in BaseUrls : InitAfter(MaxSessions - 2, url)

\* The steps of init after its first await.
Completion ==
  \/ \E s \in Sessions : PreferredSearchDone(s)
  \/ \E s \in Sessions : PreferredProbeDone(s)
  \/ \E s \in Sessions : PreferredMerged(s)
  \/ \E s \in Sessions : BackgroundSearchDone(s)
  \/ \E s \in Sessions : BackgroundProbeDone(s)
  \/ \E s \in Sessions : BackgroundMerged(s)
  \/ \E s \in Sessions : FallbackSearchDone(s)
  \/ \E s \in Sessions : FallbackProbeDone(s)
  \/ \E s \in Sessions : FallbackMerged(s)
  \/ \E s \in Sessions : ResourcesDone(s)
  \/ \E s \in Sessions, r \in Sources : ResourceSearchDone(s, r)
  \/ \E s \in Sessions, r \in Sources : ResourceProbeDone(s, r)
  \/ \E s \in Sessions, r \in Sources : ResourceMerged(s, r)
  \/ \E s \in Sessions : Joined(s)
  \/ \E s \in Sessions : FavoriteCheckDone(s)

StartSearch ==
  \E query \in Queries, preferredSource \in PreferredSources \cup {Null},
     videoSource \in VideoSources :
    init(query, preferredSource, videoSource)

\* The last search session with the selection of the displayed candidate.
Next ==
  \/ StartSearch
  \/ abort
  \/ Completion
  \/ \E d \in Selectable : setDetail(d)
  \/ \E key \in FavKeys : SetDetailCheckDone(key)

Spec == InitLast /\ [][Next]_vars

\* Search sessions alone, with the changes of the base URL.
NextSearch ==
  \/ StartSearch
  \/ abort
  \/ Completion
  \/ \E url \in BaseUrls : setBaseUrl(url)

\* The call session s is waiting for settles (it succeeds or it fails),
\* or the session resumes behind an await that waits for none.
Settle(s) ==
  \/ PreferredSearchDone(s)
  \/ PreferredProbeDone(s)
  \/ PreferredMerged(s)
  \/ BackgroundSearchDone(s)
  \/ BackgroundProbeDone(s)
  \/ BackgroundMerged(s)
  \/ FallbackSearchDone(s)
  \/ FallbackProbeDone(s)
  \/ FallbackMerged(s)
  \/ ResourcesDone(s)
  \/ \E r \in Sources : ResourceSearchDone(s, r)
  \/ \E r \in Sources : ResourceProbeDone(s, r)
  \/ \E r \in Sources : ResourceMerged(s, r)
  \/ Joined(s)
  \/ FavoriteCheckDone(s)

SpecSearch == InitLive /\ [][NextSearch]_vars

\* Search sessions under a base URL that stays as it is, in which no
\* collaborator call stays in flight for ever and every init resumes behind
\* its awaits.  abort() is left out: it cancels the session on display,
\* which then runs on as a session that an init replaced.
NextLive ==
  \/ StartSearch
  \/ Completion

SpecSearchLive ==
  InitLive /\ [][NextLive]_vars /\ \A s \in Sessions : WF_vars(Settle(s))

(***************************************************************************)
(* The favorite of the displayed candidate, from the final favorite check  *)
(* of a session of the standard path on.                                   *)
(***************************************************************************)
\* The result set of a session in which source A answered a2 and a1 (probed
\* at 720p) and source B then answered b1.
CheckedResults ==
  FinalResults(WithResolution(<<a2, a1>>, [i \in {2} |-> Q720p]),
               WithResolution(<<b1>>, NoProbe), TRUE)

\* The store when that session, the last one, awaits the favorite check of
\* its displayed candidate.
InitChecking ==
  /\ q = "X"
  /\ searchResults = CheckedResults
  /\ sources = SourcesOf(searchResults)
  /\ detail = <<searchResults[1]>>
  /\ loading = FALSE
  /\ error = Null
  /\ allSourcesLoaded = FALSE
  /\ controller = MaxSessions
  /\ isFavorited = FALSE
  /\ failedSources = {}
  /\ aborted = [s \in Sessions |-> s < MaxSessions]
  /\ sess = [s \in Sessions |->
               IF s < MaxSessions THEN Finished(Fresh)
               ELSE [Finished(Fresh) EXCEPT !.pc = "favorite",
                                            !.favKey = FavKey(searchResults[1]),
                                            !.path = "standard", !.got = <<a2, a1, b1>>]]
  /\ favPending = EmptyBag
  /\ baseURL = ApiUrl
  /\ favorites = Favorites
  /\ ret = NoReturn
  /\ marked = NoMark

NextFavorite ==
  \/ \E s \in Sessions : FavoriteCheckDone(s)
  \/ \E d \in Selectable : setDetail(d)
  \/ \E key \in FavKeys : SetDetailCheckDone(key)
  \/ toggleFavorite
  \/ \E key \in FavKeys : ToggleDone(key)

SpecFavorite == InitChecking /\ [][NextFavorite]_vars

(***************************************************************************)
(* Failover on the result set of a settled session.                        *)
(***************************************************************************)
Measured(r) == [r EXCEPT !.resolution = r.videoInfo[1].quality]

p1 == [SearchResult("A", 1, "X", <<"p1/1", "p1/2", "p1/3">>, <<>>) EXCEPT !.resolution = Q720p]
p2 == Measured(SearchResult("B", 1, "X", <<"p2/1">>, <<Slow>>))
p3 == [SearchResult("C", 1, "X", <<"p3/1", "p3/2">>, <<>>) EXCEPT !.resolution = Q1080p]
p4 == Measured(SearchResult("C", 2, "X", <<"p4/1", "p4/2", "p4/3">>, <<Unmeasured>>))
p5 == Measured(SearchResult("A", 2, "X", <<"p5/1", "p5/2", "p5/3">>, <<Slow>>))
p6 == Measured(SearchResult("B", 2, "X", <<"p6/1", "p6/2">>, <<Garbled>>))

FailoverCandidates == {p1, p2, p3, p4, p5}

\* The sequences of at most n different elements of S.
RECURSIVE SeqsUpTo(_, _)
SeqsUpTo(S, n) ==
  IF n = 0 THEN {<<>>}
  ELSE LET shorter == SeqsUpTo(S, n - 1)
       IN shorter \cup
          UNION {{Append(t, x) : x \in S \ {t[i] : i \in 1..Len(t)}} :
                   t \in {u \in shorter : Len(u) = n - 1}}

ResultSets == SeqsUpTo(FailoverCandidates, MaxResults)

EpisodeIndexes == 0..MaxEpisodeIndex

\* The store when a session has settled on the given result set, the
\* sessions before it are over, and one more init is possible.
SettledOn(results) ==
  /\ q = "X"
  /\ searchResults = results
  /\ sources = SourcesOf(searchResults)
  /\ detail = IF searchResults = <<>> THEN <<>> ELSE <<searchResults[1]>>
  /\ loading = FALSE
  /\ error = IF searchResults = <<>> THEN "no source found (standard)" ELSE Null
  /\ allSourcesLoaded = TRUE
  /\ controller = MaxSessions - 1
  /\ isFavorited = FALSE
  /\ failedSources = {}
  /\ aborted = [s \in Sessions |-> s < MaxSessions - 1]
  /\ sess = [s \in Sessions |-> IF s < MaxSessions THEN Finished(Fresh) ELSE Fresh]
  /\ favPending = EmptyBag
  /\ baseURL = ApiUrl
  /\ favorites = Favorites
  /\ ret = NoReturn
  /\ marked = NoMark

InitSettled == \E results \in ResultSets : SettledOn(results)

NextFailover ==
  \/ \E source \in Sources : markSourceAsFailed(source)
  \/ \E currentSource \in Sources, episodeIndex \in EpisodeIndexes :
       getNextAvailableSource(currentSource, episodeIndex)
  \/ StartSearch

SpecFailover == InitSettled /\ [][NextFailover]_vars

(***************************************************************************)
(* Ranking of two measured candidates: the inputs of calculateVideoScore.  *)
(***************************************************************************)
\* Two measurements that differ in exactly one of their three fields.
OneFieldApart(v, w) ==
  \/ v.quality # w.quality /\ v.loadSpeed = w.loadSpeed /\ v.pingTime = w.pingTime
  \/ v.quality = w.quality /\ v.loadSpeed # w.loadSpeed /\ v.pingTime = w.pingTime
  \/ v.quality = w.quality /\ v.loadSpeed = w.loadSpeed /\ v.pingTime # w.pingTime

ScoredPairs ==
  {<<Measured(SearchResult("A", 1, "X", <<"m1/1">>, <<v>>)),
     Measured(SearchResult("B", 1, "X", <<"m2/1">>, <<w>>))>> :
     <<v, w>> \in {vw \in VideoInfos \X VideoInfos : OneFieldApart(vw[1], vw[2])}}

\* The store when a session has settled on two measured candidates.
InitScored == \E results \in ScoredPairs : SettledOn(results)

\* The player asks for an alternative to a source that is not in the result
\* set: the two candidates are ranked by calculateVideoScore.
NextScored == getNextAvailableSource("C", 0)

SpecScored == InitScored /\ [][NextScored]_vars

(***************************************************************************)
(* Failover among measured candidates, one of them with a load-speed label *)
(* that scores NaN.                                                        *)
(***************************************************************************)
MeasuredCandidates == {p2, p4, p5, p6}

InitRanked == \E results \in SeqsUpTo(MeasuredCandidates, MaxResults) : SettledOn(results)

NextRanked ==
  \/ \E source \in Sources : markSourceAsFailed(source)
  \/ \E currentSource \in Sources, episodeIndex \in EpisodeIndexes :
       getNextAvailableSource(currentSource, episodeIndex)

SpecRanked == InitRanked /\ [][NextRanked]_vars

(***************************************************************************)
(* Properties                                                              *)
(***************************************************************************)
storeFields == <<searchResults, sources, detail, loading, error, isFavorited, allSourcesLoaded>>

\* Session s takes the step: one of the calls of its init completes.
Acts(s) == Forgotten(sess'[s]) # Forgotten(sess[s])

HasCallInFlight(s) == sess[s].pc \notin {"idle", "done"}

\* C1: once a newer init has started, no completion of a call of an older
\* session changes searchResults, sources, detail, loading, error,
\* isFavorited or allSourcesLoaded.
C1_SupersededSessionIsInert ==
  [][\A s \in Sessions : (s < controller /\ Acts(s)) => UNCHANGED storeFields]_vars

\* C2: every controller created by init other than the stored one is aborted,
\* and a session has calls in flight only when every earlier controller is
\* aborted.
C2_OneLiveController ==
  /\ \A s \in Sessions : (s <= controller /\ ~aborted[s]) => s = controller
  /\ \A s \in Sessions : s > controller => (~aborted[s] /\ sess[s].pc = "idle")
  /\ \A s, t \in Sessions : (HasCallInFlight(s) /\ t < s) => aborted[t]

C2_Witness ==
  /\ controller = 2
  /\ aborted[1] /\ ~aborted[2]
  /\ HasCallInFlight(1) /\ HasCallInFlight(2)

\* C3: a step of a session whose signal is aborted changes none of
\* searchResults, sources and detail.
C3_AbortedSessionMergesNothing ==
  [][\A s \in Sessions : (aborted[s] /\ Acts(s)) => UNCHANGED <<searchResults, sources, detail>>]_vars

\* A session has discarded a batch that arrived before it was aborted, and a
\* later session shows results of its own.
C3_Witness ==
  \E s \in Sessions : aborted[s] /\ sess[s].dropped /\ s < controller /\ searchResults # <<>>

\* C4: after abort() and without a new init, a step of the aborted session
\* leaves a null error null.
C4_AbortIsNotAnError ==
  [][(controller # 0 /\ aborted[controller] /\ error = Null /\ Acts(controller))
       => error' = Null]_vars

\* C5: no two candidates of searchResults have the same source.
C5_UniqueSources ==
  \A i, j \in 1..Len(searchResults) :
    searchResults[i].source = searchResults[j].source => i = j

\* C6: detail is null or an element of searchResults.
C6_DetailInResults ==
  detail = <<>> \/ \E i \in 1..Len(searchResults) : searchResults[i] = detail[1]

\* C7: no step removes a source from failedSources, and markSourceAsFailed(s)
\* makes it the previous set plus s.
C7_FailedSourcesGrow ==
  [][/\ failedSources \subseteq failedSources'
     /\ \A source \in Sources :
          markSourceAsFailed(source) => failedSources' = failedSources \cup {source}]_vars

\* Two sources have been marked as failed and a new session has started
\* since the first result set.
C7_Witness == Cardinality(failedSources) >= 2 /\ controller = MaxSessions

\* C8: the step in which init starts a new session leaves failedSources
\* empty.
C8_FreshSessionHasNoFailedSources ==
  [][controller' # controller => failedSources' = {}]_vars

\* C9: a candidate returned by getNextAvailableSource is of another source
\* than currentSource, of a source that is not in failedSources, and has an
\* episode at episodeIndex.
C9_ReturnedCandidatePassesFilter ==
  (ret.called /\ ret.result # <<>>) =>
    /\ ret.result[1].source # ret.currentSource
    /\ ret.result[1].source \notin failedSources
    /\ Len(ret.result[1].episodes) > ret.episodeIndex

\* A candidate is returned while the result set also holds a candidate of
\* currentSource, one of a failed source and one without the episode.
C9_Witness ==
  /\ ret.called /\ ret.result # <<>>
  /\ \E i, j, k \in 1..Len(searchResults) :
       /\ searchResults[i].source = ret.currentSource
       /\ searchResults[j].source \in failedSources
       /\ Len(searchResults[k].episodes) <= ret.episodeIndex

Viable(currentSource, episodeIndex) ==
  {i \in 1..Len(searchResults) :
     /\ searchResults[i].source # currentSource
     /\ searchResults[i].source \notin failedSources
     /\ Len(searchResults[i].episodes) > episodeIndex}

\* C10: getNextAvailableSource returns null exactly when no candidate of
\* searchResults passes the filter, and otherwise returns one that passes.
C10_NullExactlyWhenNoneViable ==
  ret.called =>
    LET viable == Viable(ret.currentSource, ret.episodeIndex)
    IN /\ (ret.result = <<>>) <=> (viable = {})
       /\ viable # {} => \E i \in viable : searchResults[i] = ret.result[1]

\* A candidate is returned although a candidate of another, not failed source
\* that the comparator ranks before it lacks the episode.
C10_Witness ==
  /\ ret.called /\ ret.result # <<>>
  /\ \E i \in 1..Len(searchResults) :
       /\ searchResults[i].source # ret.currentSource
       /\ searchResults[i].source \notin failedSources
       /\ Len(searchResults[i].episodes) <= ret.episodeIndex
       /\ Compare(searchResults[i], ret.result[1]) < 0

\* C11: a markSourceAsFailed(s) call that finds s already in failedSources
\* leaves failedSources as it was, and with it what getNextAvailableSource
\* can return for every currentSource and episodeIndex.
C11_RepeatedMarkIsIdempotent ==
  (marked.called /\ marked.source \in marked.before) =>
    /\ failedSources = marked.before
    /\ \A currentSource \in Sources, episodeIndex \in EpisodeIndexes :
         selectedSource(searchResults, failedSources, currentSource, episodeIndex)
           = selectedSource(searchResults, marked.before, currentSource, episodeIndex)

\* A source of the result set is reported a second time while another
\* source is failed too and a candidate of a third one can still be selected.
C11_Witness ==
  /\ marked.called /\ marked.source \in marked.before
  /\ Cardinality(marked.before) >= 2
  /\ \E i \in 1..Len(searchResults) : searchResults[i].source = marked.source
  /\ \E currentSource \in Sources \ {marked.source}, episodeIndex \in EpisodeIndexes :
       selectedSource(searchResults, failedSources, currentSource, episodeIndex) # {<<>>}

\* The positions of an init call at which its next merge is in append mode:
\* the background search of the preferred-source path and the single-source
\* searches of the standard path.
AppendPositions == {"background", "backgroundProbe", "backgroundMerged", "fanout"}

\* C12: a step of a session at a position of append mode leaves the
\* candidates of searchResults in place, unchanged and in their order, and
\* every candidate it adds is of a source no candidate of searchResults had.
C12_AppendMergeKeepsResults ==
  [][\A s \in Sessions :
       (Acts(s) /\ sess[s].pc \in AppendPositions) =>
         /\ Len(searchResults') >= Len(searchResults)
         /\ SubSeq(searchResults', 1, Len(searchResults)) = searchResults
         /\ \A i \in (Len(searchResults) + 1)..Len(searchResults') :
              \A j \in 1..Len(searchResults) :
                searchResults'[i].source # searchResults[j].source]_vars

\* The session on display took the preferred-source path and its background
\* merge has added a candidate of another source behind the preferred batch,
\* which is still there whole.
C12_Witness ==
  \E s \in Sessions :
    /\ s = controller /\ ~aborted[s]
    /\ sess[s].path = "preferred" /\ sess[s].pc \in {"favorite", "done"}
    /\ Len(searchResults) = Len(sess[s].got) + 1
    /\ \A i \in 1..Len(sess[s].got) :
         [searchResults[i] EXCEPT !.resolution = Undefined] = sess[s].got[i]
    /\ searchResults[Len(searchResults)].source # searchResults[1].source

\* The candidates as the providers answered them, before a resolution is
\* attached.
AsAnswered(results) == [i \in 1..Len(results) |-> [results[i] EXCEPT !.resolution = Undefined]]

\* Session s returns from init in this step without having been cancelled.
Settles(s) == sess[s].pc # "done" /\ sess'[s].pc = "done" /\ ~aborted[s]

\* C13: a session of the preferred-source path whose all-sources fallback
\* answered candidates of the title, and that is not cancelled, returns with
\* loading false, error null and exactly those candidates as the result set.
C13_FallbackSessionEndsClean ==
  [][\A s \in Sessions :
       (Settles(s) /\ sess'[s].path = "fallback") =>
         /\ loading' = FALSE
         /\ error' = Null
         /\ AsAnswered(searchResults') = sess'[s].got]_vars

\* C14: when api.getResources answers a session that is not cancelled with
\* a catalog of which videoSource enables no resource, the step sets error
\* to the no-enabled-sources message, clears loading, leaves the result set
\* empty and issues no single-source search: init returns.
C14_NoEnabledSourcesFailsFast ==
  [][\A s \in Sessions, catalog \in Catalogs :
       (/\ sess[s].pc = "resources"
        /\ getResourcesSettled(s, Cur, sess[s], <<"ok", catalog>>)
        /\ ~aborted[s]
        /\ Len(enabledResources(sess[s].videoSource, catalog)) = 0) =>
         /\ error' = "no enabled sources"
         /\ loading' = FALSE
         /\ searchResults' = <<>>
         /\ sess'[s].pc = "done"
         /\ \A r \in Sources : sess'[s].fan[r].st = "none"]_vars

\* The session on display has returned with the no-enabled-sources message.
C14_Witness ==
  \E s \in Sessions :
    /\ s = controller /\ ~aborted[s] /\ sess[s].pc = "done"
    /\ error = "no enabled sources" /\ ~loading /\ searchResults = <<>>

\* Session s resumes in this step behind a processAndSetResults call that
\* has returned.
Resumes(s) ==
  \/ sess[s].pc \in {"preferredMerged", "fallbackMerged"}
  \/ /\ sess[s].pc = "fanout"
     /\ \E r \in Sources : sess[s].fan[r].st = "merged" /\ sess'[s].fan[r].st = "done"

\* C15: a session that is not cancelled shows results with loading true
\* only while it is about to resume behind the merge of a batch, without
\* waiting for a call, and the step in which it resumes clears loading.
C15_FirstBatchClearsLoading ==
  [][\A s \in Sessions :
       /\ (s = controller /\ ~aborted[s] /\ searchResults # <<>> /\ loading) =>
            \/ sess[s].pc \in {"preferredMerged", "fallbackMerged"}
            \/ sess[s].pc = "fanout" /\ \E r \in Sources : sess[s].fan[r].st = "merged"
       /\ (Acts(s) /\ ~aborted[s] /\ Resumes(s)) => loading' = FALSE]_vars

\* The only session there has been shows results with loading false and
\* allSourcesLoaded false while a single-source search of that session is
\* still in flight.
C15_Witness ==
  \E s \in Sessions :
    /\ s = controller /\ ~aborted[s]
    /\ \A t \in Sessions \ {s} : sess[t].pc = "idle"
    /\ ~loading /\ searchResults # <<>> /\ ~allSourcesLoaded
    /\ sess[s].pc = "fanout" /\ \E r \in Sources : sess[s].fan[r].st = "pending"

SourceSet(results) == {results[i].source : i \in 1..Len(results)}

\* C16: when a session of the standard path that is not cancelled returns,
\* the sources of searchResults are the sources of the candidates its
\* single-source searches answered, in whatever order they settled.
C16_StandardSessionShowsEveryAnsweringProvider ==
  [][\A s \in Sessions :
       (Settles(s) /\ sess'[s].path = "standard") =>
         SourceSet(searchResults') = SourceSet(sess'[s].got)]_vars

\* The session has returned showing two providers, the second of the
\* catalog first.
C16_Witness ==
  \E s \in Sessions :
    /\ s = controller /\ ~aborted[s] /\ sess[s].pc = "done" /\ sess[s].path = "standard"
    /\ SourceSet(searchResults) = {"A", "B"}
    /\ searchResults[1].source = "B"

\* C20: when a session that is not cancelled returns, error is non-null
\* exactly when searchResults is empty.
C20_ErrorExactlyWhenNoResults ==
  [][\A s \in Sessions :
       Settles(s) => ((error' # Null) <=> (searchResults' = <<>>))]_vars

\* a >= b for two natural numbers in base Limb.
RECURSIVE AtLeast(_, _)
AtLeast(a, b) ==
  IF Len(a) # Len(b) THEN Len(a) > Len(b)
  ELSE IF a = <<>> THEN TRUE
  ELSE IF a[Len(a)] # b[Len(b)] THEN a[Len(a)] > b[Len(b)]
  ELSE AtLeast(SubSeq(a, 1, Len(a) - 1), SubSeq(b, 1, Len(b) - 1))

RECURSIVE TimesTen(_, _)
TimesTen(a, n) == IF n = 0 \/ a = <<>> THEN a ELSE TimesTen(TimesSmall(a, 10, 0), n - 1)

\* The speed a load-speed label states, exactly: the natural number n and
\* the count f of decimal places of n / 10^f KB/s; <<>> for a label that
\* states none.
LabelSpeed(loadSpeed) ==
  LET match == SpeedMatch(loadSpeed)
  IN IF match = <<>> THEN <<>>
     ELSE LET numeral == Numeral(match[1])
              n == DigitsLimbs(numeral.digits, <<>>)
          IN IF numeral.nan THEN <<>>
             ELSE <<[n |-> IF match[2] = "MB/s" /\ n # <<>> THEN TimesSmall(n, 1024, 0) ELSE n,
                     f |-> numeral.f]>>

\* Label v states a speed, and so does label w, and the speed of v is at
\* least the speed of w.
StatesAtLeast(v, w) ==
  /\ LabelSpeed(v) # <<>> /\ LabelSpeed(w) # <<>>
  /\ AtLeast(TimesTen(LabelSpeed(v)[1].n, LabelSpeed(w)[1].f),
             TimesTen(LabelSpeed(w)[1].n, LabelSpeed(v)[1].f))

\* Score x is lower than score y; no comparison with NaN is true.
Lower(x, y) == x # NaN /\ y # NaN /\ x < y

\* C17: of two measurements that differ in one field, the one with the
\* quality label of higher table score, with the higher stated speed, or
\* with the lower measured (positive) ping never has the lower score.
C17_ScoreIsMonotonic ==
  \A i, j \in 1..Len(searchResults) :
    (searchResults[i].videoInfo # <<>> /\ searchResults[j].videoInfo # <<>>) =>
      LET v == searchResults[i].videoInfo[1]
          w == searchResults[j].videoInfo[1]
          better ==
            \/ /\ v.loadSpeed = w.loadSpeed /\ v.pingTime = w.pingTime
               /\ qualityScore(v.quality) >= qualityScore(w.quality)
            \/ /\ v.quality = w.quality /\ v.pingTime = w.pingTime
               /\ StatesAtLeast(v.loadSpeed, w.loadSpeed)
            \/ /\ v.quality = w.quality /\ v.loadSpeed = w.loadSpeed
               /\ 0 < v.pingTime /\ v.pingTime <= w.pingTime
      IN better => ~Lower(calculateVideoScore(v), calculateVideoScore(w))

\* The second of two candidates that differ in their ping only, both between
\* 50 ms and 1000 ms, has the lower ping and has been selected for its
\* higher score.
C17_Witness ==
  /\ ret.called /\ Len(searchResults) = 2 /\ ret.result = <<searchResults[2]>>
  /\ searchResults[1].videoInfo # <<>> /\ searchResults[2].videoInfo # <<>>
  /\ LET v == searchResults[2].videoInfo[1]
         w == searchResults[1].videoInfo[1]
     IN /\ v.quality = w.quality /\ v.loadSpeed = w.loadSpeed
        /\ minPing <= v.pingTime /\ v.pingTime < w.pingTime /\ w.pingTime <= maxPing
        /\ Lower(calculateVideoScore(w), calculateVideoScore(v))

Score(r) == calculateVideoScore(r.videoInfo[1])

\* C18: when every candidate that passes the filter has videoInfo, the
\* returned candidate is the earliest in searchResults of those whose score
\* no passing candidate exceeds.
C18_MeasuredSelectionIsBestScore ==
  LET viable == Viable(ret.currentSource, ret.episodeIndex)
      top == {i \in viable : \A j \in viable : ~Lower(Score(searchResults[i]), Score(searchResults[j]))}
  IN (/\ ret.called /\ viable # {}
      /\ \A i \in viable : searchResults[i].videoInfo # <<>>) =>
       /\ top # {}
       /\ ret.result = <<searchResults[CHOOSE i \in top : \A j \in top : i <= j]>>

\* C19: no candidate that passes the filter ranks strictly above the
\* returned one under the comparator of the sort.
C19_SelectionIsTopRanked ==
  (ret.called /\ ret.result # <<>>) =>
    \A i \in Viable(ret.currentSource, ret.episodeIndex) :
      ~(Compare(searchResults[i], ret.result[1]) < 0)

\* Session s has returned from init and the store shows the settled state.
Settled(s) == sess[s].pc = "done" /\ ~loading /\ allSourcesLoaded

\* C21: a session that has started and is never cancelled eventually
\* returns from init with loading false and allSourcesLoaded true.
C21_UncancelledSessionSettles ==
  \A s \in Sessions : (sess[s].pc # "idle") ~> (aborted[s] \/ Settled(s))

\* A session was replaced after a batch of its own had arrived; the session
\* that replaced it, of the preferred-source path, has settled without being
\* cancelled and shows the preferred batch and the background batch.
C21_Witness ==
  \E s \in Sessions \ {1} :
    /\ s = controller /\ aborted[s - 1] /\ ~aborted[s]
    /\ sess[s - 1].pc = "done" /\ sess[s - 1].dropped
    /\ sess[s].path = "preferred" /\ Settled(s) /\ Len(searchResults) >= 2

\* The error with which a call that has no caller's signal ends when it
\* exceeds its deadline.
TimedOut == FetchThrows(CHOOSE r \in Rejections(NoSignal, FALSE) : r.name = "AbortError")

\* C22: a single-source search of the fan-out whose session is cancelled
\* does not end with the error of a call that exceeded its deadline.
C22_CancelledCallIsNotATimeout ==
  \A s \in Sessions, r \in Sources :
    (aborted[s] /\ sess[s].pc = "fanout" /\ sess[s].fan[r].st = "pending") =>
      \A answer \in SignalledAnswers(s, RawOne(r)) :
        answer[1] = "error" => answer[2] # TimedOut

\* C23: in a step that is not the start of a session, a detail that is set
\* stays as it is, and a detail that is null becomes the first candidate of
\* the batch the step merges into the empty result set (and stays null when
\* the step merges none).
C23_FirstMergedCandidateIsKept ==
  [][controller' = controller =>
       IF detail # <<>> THEN detail' = detail
       ELSE /\ searchResults = <<>>
            /\ detail' = IF searchResults' = <<>> THEN <<>> ELSE <<searchResults'[1]>>]_vars

\* Provider A answered the session on display first, but its batch was
\* still being probed when the batch of provider B was merged: the batch of
\* A is behind it and the first candidate of B is still the one shown.
C23_Witness ==
  \E s \in Sessions :
    /\ s = controller /\ sess[s].path = "standard"
    /\ Len(searchResults) >= 2
    /\ detail = <<searchResults[1]>> /\ detail[1].source = "B"
    /\ searchResults[Len(searchResults)].source = "A"
    /\ sess[s].got[1].source = "A"

\* C24: a markSourceAsFailed call changes no store field but failedSources
\* and a getNextAvailableSource call changes no store field; neither aborts
\* a controller.
C24_FailoverStaysInSession ==
  [][/\ marked'.called =>
          UNCHANGED <<q, searchResults, sources, detail, loading, error, allSourcesLoaded,
                      controller, isFavorited, aborted>>
     /\ ret'.called =>
          UNCHANGED <<q, searchResults, sources, detail, loading, error, allSourcesLoaded,
                      controller, isFavorited, failedSources, aborted>>]_vars

\* After a source was marked as failed, getNextAvailableSource has returned
\* a candidate that ranks above the first one of the settled result set,
\* which is still first and still the one shown.
C24_Witness ==
  /\ ret.called /\ ret.result # <<>> /\ failedSources # {}
  /\ Compare(ret.result[1], searchResults[1]) < 0
  /\ detail = <<searchResults[1]>>
  /\ ~loading /\ allSourcesLoaded /\ error = Null
  /\ controller = MaxSessions - 1 /\ ~aborted[controller]

\* C25: allSourcesLoaded is true only while loading is false.
C25_LoadedImpliesNotLoading == allSourcesLoaded => ~loading

\* A session that was replaced after one of its batches had arrived has
\* returned, and the session that replaced it has settled with results:
\* allSourcesLoaded is true.
C25_Witness ==
  \E s \in Sessions \ {1} :
    /\ s = controller /\ ~aborted[s] /\ sess[s].pc = "done"
    /\ sess[s - 1].pc = "done" /\ sess[s - 1].dropped
    /\ allSourcesLoaded /\ searchResults # <<>>

\* C26: sources is the projection of searchResults: the source, source_name,
\* resolution and videoInfo of its candidates, in their order.
C26_SourcesProjectSearchResults == sources = SourcesOf(searchResults)

\* No favorite check is pending and none is to come: no setDetail or
\* toggleFavorite call awaits FavoriteManager and every init call has
\* returned.
NoCheckPending ==
  /\ favPending = EmptyBag
  /\ \A s \in Sessions : sess[s].pc \in {"idle", "done"}

\* C27: when the last pending favorite check completes with an answer,
\* isFavorited is the favorite status of the candidate held in detail.
C27_FavoriteFlagFollowsDetail ==
  [][(/\ \/ \E key \in FavKeys : SetDetailCheckSettled(key, TRUE)
         \/ \E s \in Sessions : FavoriteCheckSettled(s, TRUE)
      /\ NoCheckPending'
      /\ detail' # <<>>) =>
       isFavorited' = (FavKey(detail'[1]) \in favorites')]_vars

====
